---- MODULE Spec2Model ----
(***************************************************************************)
(* PyWiiM: the PyWiim client of src/pywiim/pywiim.py as a state machine.   *)
(*                                                                         *)
(* The client is used from asyncio coroutines.  A coroutine runs without   *)
(* interruption from one await to the next, so every action below is the   *)
(* code between two consecutive awaits of one call:                        *)
(*   Call/CloseBegin  entry of a public method up to its first await       *)
(*   DeviceReply      the device answers the GET in flight                 *)
(*   TransportFail    the GET in flight times out or the transport breaks  *)
(*   Resume           the await of session.get() returns or raises         *)
(*   TextDone         the await of response.text() returns or raises, and  *)
(*                    the method runs on to its next await or its end      *)
(*   CloseFinish      the await of session.close() returns                 *)
(*   Return           the caller's await of the call yields its result     *)
(***************************************************************************)
EXTENDS Integers, Sequences, FiniteSets, TLC

VARIABLES
    session,            \* self._aiohttp_session: None, ExtSession or a created id
    created_session,    \* self._created_session
    supplied,           \* was a session passed to __init__
    tasks,              \* the caller's coroutines, one record per slot
    devVol,             \* the device's volume
    numCreated,         \* history: aiohttp.ClientSession() constructions
    createdSinceReset,  \* history: constructions since close() last reset the handle
    released,           \* history: sessions on which close() was called, in order
    lateGet,            \* history: a GET was issued on a session already being released
    opsStarted,         \* calls made so far
    repertoire,         \* the calls this caller makes
    runLimit,           \* how many calls the caller keeps in flight at once
    closeLimit,         \* how many close() calls the caller keeps in flight at once
    quirks              \* "vol" texts the device may report besides its volume

vars == <<session, created_session, supplied, tasks, devVol, numCreated,
          createdSinceReset, released, lateGet, opsStarted, repertoire,
          runLimit, closeLimit, quirks>>

----------------------------------------------------------------------------
(* Bounds *)
NumTasks == 2
MaxOps == 3

Tasks == 1..NumTasks

----------------------------------------------------------------------------
(* const.py *)
STATUS_OK == 200
PYWIIM_CMD_GET_PLAY_INFO  == "getPlayerStatus"
PYWIIM_CMD_PAUSE          == "setPlayerCmd:pause"
PYWIIM_CMD_PLAY           == "setPlayerCmd:play"
PYWIIM_CMD_TOGGLE         == "setPlayerCmd:onepause"
PYWIIM_CMD_PREVIOUS       == "setPlayerCmd:prev"
PYWIIM_CMD_NEXT           == "setPlayerCmd:next"
PYWIIM_CMD_SEEK           == "setPlayerCmd:seek:"
PYWIIM_CMD_STOP           == "setPlayerCmd:stop"
PYWIIM_CMD_VOLUME_SET     == "setPlayerCmd:vol:"
PYWIIM_CMD_MUTE_SET       == "setPlayerCmd:mute:"
PYWIIM_CMD_LOOPMODE_SET   == "setPlayerCmd:loopmode:"
PYWIIM_CMD_EQ_ON          == "EQOn"
PYWIIM_CMD_EQ_OFF         == "EQOff"
PYWIIM_CMD_EQ_LOAD        == "EQLoad:"
PYWIIM_CMD_REBOOT         == "reboot"
PYWIIM_CMD_SET_SHUTDOWN   == "setShutdown:"
PYWIIM_CMD_SOURCE         == "setPlayerCmd:switchmode:"
PYWIIM_CMD_PLAY_AUDIO_URL == "setPlayerCmd:play:"
PYWIIM_MUTE               == "1"
PYWIIM_UNMUTE             == "0"
PYWIIM_SEQUENCE           == "4"
PYWIIM_SHUFFLE            == "3"
PYWIIM_SOURCE_LINE_IN     == "line-in"
PYWIIM_SOURCE_WIFI        == "wifi"

----------------------------------------------------------------------------
(* Session handles *)
None == 0
ExtSession == 1
NewSession(n) == n + 2   \* the n-th ClientSession() constructed, n from 0

----------------------------------------------------------------------------
(* str(int) of Python, as used to build command strings *)
DigitChar(d) == <<"0", "1", "2", "3", "4", "5", "6", "7", "8", "9">>[d + 1]

RECURSIVE NatStr(_)
NatStr(n) == IF n < 10 THEN DigitChar(n) ELSE NatStr(n \div 10) \o DigitChar(n % 10)

str(n) == IF n < 0 THEN "-" \o NatStr(-n) ELSE NatStr(n)

(* The same decimal text as a sequence of characters, the form in which the *)
(* device's JSON carries "vol".                                             *)
RECURSIVE NatChars(_)
NatChars(n) == IF n < 10 THEN <<DigitChar(n)>>
               ELSE Append(NatChars(n \div 10), DigitChar(n % 10))

IntChars(n) == IF n < 0 THEN <<"-">> \o NatChars(-n) ELSE NatChars(n)

(* int(str) of Python: surrounding whitespace is stripped, one optional sign, *)
(* then one or more decimal digits; anything else is a ValueError.            *)
DigitVal(c) == CHOOSE d \in 0..9 : DigitChar(d) = c
IsDigit(c) == \E d \in 0..9 : DigitChar(d) = c

RECURSIVE Strip(_)
Strip(cs) == IF cs # <<>> /\ Head(cs) = " " THEN Strip(Tail(cs))
             ELSE IF cs # <<>> /\ cs[Len(cs)] = " " THEN Strip(SubSeq(cs, 1, Len(cs) - 1))
             ELSE cs

RECURSIVE DigitsVal(_)
DigitsVal(cs) == IF cs = <<>> THEN 0
                 ELSE 10 * DigitsVal(SubSeq(cs, 1, Len(cs) - 1)) + DigitVal(cs[Len(cs)])

int(cs) ==
    LET s == Strip(cs)
        signed == s # <<>> /\ Head(s) \in {"-", "+"}
        ds == IF signed THEN Tail(s) ELSE s
    IN  IF ds = <<>> \/ \E i \in 1..Len(ds) : ~IsDigit(ds[i])
        THEN [ok |-> FALSE, val |-> 0]
        ELSE [ok |-> TRUE,
              val |-> IF signed /\ Head(s) = "-" THEN -DigitsVal(ds) ELSE DigitsVal(ds)]

----------------------------------------------------------------------------
(* The public methods.  A call is [op, n, s]: the method, its integer      *)
(* argument (0 when it has none) and its string argument ("" when none).   *)
C(op, n, s) == [op |-> op, n |-> n, s |-> s]

(* Variant: set_volume bounds its argument as set_volume_relative does. *)
CommandBounded(op, n, s) ==
    CASE op = "pause"             -> PYWIIM_CMD_PAUSE
      [] op = "play"              -> PYWIIM_CMD_PLAY
      [] op = "toggle"            -> PYWIIM_CMD_TOGGLE
      [] op = "previous"          -> PYWIIM_CMD_PREVIOUS
      [] op = "next"              -> PYWIIM_CMD_NEXT
      [] op = "seek"              -> PYWIIM_CMD_SEEK \o str(n)
      [] op = "stop"              -> PYWIIM_CMD_STOP
      [] op = "set_volume"        -> PYWIIM_CMD_VOLUME_SET \o str(IF n > 100 THEN 100 ELSE IF n < 0 THEN 0 ELSE n)
      [] op = "mute"              -> PYWIIM_CMD_MUTE_SET \o PYWIIM_MUTE
      [] op = "unmute"            -> PYWIIM_CMD_MUTE_SET \o PYWIIM_UNMUTE
      [] op = "set_loopmode"      -> PYWIIM_CMD_LOOPMODE_SET \o s
      [] op = "enable_eq"         -> PYWIIM_CMD_EQ_ON
      [] op = "disable_eq"        -> PYWIIM_CMD_EQ_OFF
      [] op = "load_eq"           -> PYWIIM_CMD_EQ_LOAD \o s
      [] op = "reboot"            -> PYWIIM_CMD_REBOOT
      [] op = "schedule_shutdown" -> PYWIIM_CMD_SET_SHUTDOWN \o str(n)
      [] op = "set_source"        -> PYWIIM_CMD_SOURCE \o s
      [] op = "play_audio_url"    -> PYWIIM_CMD_PLAY_AUDIO_URL \o s
      [] op = "set_volume_relative" -> PYWIIM_CMD_GET_PLAY_INFO

(* The command string each single-command method hands to _get. *)
Command(op, n, s) ==
    CASE op = "pause"             -> PYWIIM_CMD_PAUSE
      [] op = "play"              -> PYWIIM_CMD_PLAY
      [] op = "toggle"            -> PYWIIM_CMD_TOGGLE
      [] op = "previous"          -> PYWIIM_CMD_PREVIOUS
      [] op = "next"              -> PYWIIM_CMD_NEXT
      [] op = "seek"              -> PYWIIM_CMD_SEEK \o str(n)
      [] op = "stop"              -> PYWIIM_CMD_STOP
      [] op = "set_volume"        -> PYWIIM_CMD_VOLUME_SET \o str(n)
      [] op = "mute"              -> PYWIIM_CMD_MUTE_SET \o PYWIIM_MUTE
      [] op = "unmute"            -> PYWIIM_CMD_MUTE_SET \o PYWIIM_UNMUTE
      [] op = "set_loopmode"      -> PYWIIM_CMD_LOOPMODE_SET \o s
      [] op = "enable_eq"         -> PYWIIM_CMD_EQ_ON
      [] op = "disable_eq"        -> PYWIIM_CMD_EQ_OFF
      [] op = "load_eq"           -> PYWIIM_CMD_EQ_LOAD \o s
      [] op = "reboot"            -> PYWIIM_CMD_REBOOT
      [] op = "schedule_shutdown" -> PYWIIM_CMD_SET_SHUTDOWN \o str(n)
      [] op = "set_source"        -> PYWIIM_CMD_SOURCE \o s
      [] op = "play_audio_url"    -> PYWIIM_CMD_PLAY_AUDIO_URL \o s
      [] op = "set_volume_relative" -> PYWIIM_CMD_GET_PLAY_INFO

(* Variant: the offset is applied to the device's volume at the time of    *)
(* the write (an atomic read-modify-write).                                *)
NewVolAtomic(v, offset) == devVol + offset

(* new_vol = int(status["vol"]) + offset *)
NewVol(v, offset) == v + offset

(* Variant: only the lower bound is enforced. *)
BoundLowOnly(new_vol) == IF new_vol < 0 THEN 0 ELSE new_vol

(* if new_vol > 100: 100 elif new_vol < 0: 0 *)
Bound(new_vol) == IF new_vol > 100 THEN 100 ELSE IF new_vol < 0 THEN 0 ELSE new_vol

(* The calls a caller makes, per scenario. *)
SetVolumeArgs == {-10, 0, 50, 100, 150}
Offsets == {-30, 10, 30}

CommandCalls ==
    {C(op, 0, "") : op \in {"pause", "play", "toggle", "previous", "next", "stop",
                            "mute", "unmute", "enable_eq", "disable_eq", "reboot"}}
    \cup {C("set_volume", v, "") : v \in SetVolumeArgs}
    \cup {C("seek", 30, ""), C("schedule_shutdown", -1, ""), C("schedule_shutdown", 60, "")}
    \cup {C("set_loopmode", 0, PYWIIM_SEQUENCE), C("set_loopmode", 0, PYWIIM_SHUFFLE),
          C("load_eq", 0, "Rock"),
          C("set_source", 0, PYWIIM_SOURCE_LINE_IN), C("set_source", 0, PYWIIM_SOURCE_WIFI),
          C("play_audio_url", 0, "https://hd1.wamu.org/wamu-1")}

VolumeCalls == {C("set_volume_relative", o, "") : o \in Offsets}

CloseCall == C("close", 0, "")

LifecycleCalls == {C("pause", 0, ""), CloseCall}

RaceCalls == {C("set_volume_relative", -30, ""), C("set_volume_relative", 30, ""),
              CloseCall}

----------------------------------------------------------------------------
(* Responses.  A body is the text of the response: whether it is a JSON    *)
(* object, whether the object has the key "vol", and the value under it.   *)
Body(json, hasVol, vol) == [json |-> json, hasVol |-> hasVol, vol |-> vol]
PlainBody == Body(FALSE, FALSE, <<>>)
NoResp == [kind |-> "none", status |-> 0, body |-> PlainBody]
Http(status, body) == [kind |-> "http", status |-> status, body |-> body]
Failure(kind) == [kind |-> kind, status |-> 0, body |-> PlainBody]

(* What the device may answer to getPlayerStatus when its volume is v:     *)
(* {"vol": "<v>"}, {"vol": "<quirk>"}, {} or text that is not JSON.        *)
StatusBodies(v) == {Body(TRUE, TRUE, IntChars(v)), Body(TRUE, FALSE, <<>>), PlainBody}
                   \cup {Body(TRUE, TRUE, q) : q \in quirks}

(* " 7", "-5", "120" and "x" *)
VolQuirks == {<<" ", "7">>, <<"-", "5">>, <<"1", "2", "0">>, <<"x">>}

(* The volume a command sets on the device, or -1 when it sets none. *)
VolumeSetBy(cmd) == IF \E v \in 0..100 : cmd = PYWIIM_CMD_VOLUME_SET \o str(v)
                    THEN CHOOSE v \in 0..100 : cmd = PYWIIM_CMD_VOLUME_SET \o str(v)
                    ELSE -1

----------------------------------------------------------------------------
(* Errors.  An error is its type and the type of its __cause__.            *)
Err(type, cause) == [type |-> type, cause |-> cause]
Ok == Err("ok", "none")
NoResult == Err("none", "none")

(* aiohttp exports ClientError; the module has no attribute clientError.   *)
AiohttpAttrs == {"ClientSession", "ClientError"}

(* except (asyncio.TimeoutError, aiohttp.clientError) as error:            *)
(*     raise PyWiimCannotConnectError() from error                         *)
(* The tuple is evaluated when an exception reaches the clause; a missing  *)
(* attribute raises AttributeError in place of the match.                  *)
ExceptClause(exc) ==
    IF "clientError" \notin AiohttpAttrs THEN Err("AttributeError", "none")
    ELSE IF exc \in {"TimeoutError", "ClientError"}
         THEN Err("PyWiimCannotConnectError", exc)
         ELSE Err(exc, "none")

----------------------------------------------------------------------------
(* Task records *)
Idle == [pc |-> "idle", op |-> "none", n |-> 0, s |-> "", nget |-> 0, cmd |-> "",
         used |-> None, resp |-> NoResp, readVol |-> 0, overlapped |-> FALSE,
         result |-> NoResult]

(* Task u holds the answer to its status read, "vol" = v, and has not yet  *)
(* issued its set-volume.                                                  *)
HoldsRead(u, v) ==
    /\ tasks[u].op = "set_volume_relative"
    /\ tasks[u].nget = 1
    /\ tasks[u].pc \in {"replied", "text"}
    /\ tasks[u].resp.kind = "http"
    /\ tasks[u].resp.status = STATUS_OK
    /\ tasks[u].resp.body = Body(TRUE, TRUE, IntChars(v))

InFlight == {t \in Tasks : tasks[t].pc # "idle"}
Done == {t \in Tasks : tasks[t].pc = "done"}
Closing == {t \in Tasks : tasks[t].pc = "closing"}
TimesReleased(s) == Cardinality({i \in 1..Len(released) : released[i] = s})

TypeOK ==
    /\ session \in 0..(2 * MaxOps + 2)
    /\ created_session \in BOOLEAN
    /\ supplied \in BOOLEAN
    /\ \A t \in Tasks : tasks[t].pc \in {"idle", "get", "replied", "text", "closing", "done"}
    /\ devVol \in 0..100
    /\ numCreated \in 0..(2 * MaxOps)
    /\ opsStarted \in 0..MaxOps

(* __init__(host, session=None) *)
InitClient ==
    /\ supplied \in BOOLEAN
    /\ session = IF supplied THEN ExtSession ELSE None
    /\ created_session = FALSE
    /\ tasks = [t \in Tasks |-> Idle]
    /\ devVol \in {10, 50, 80}
    /\ numCreated = 0
    /\ createdSinceReset = 0
    /\ released = <<>>
    /\ lateGet = FALSE
    /\ opsStarted = 0

----------------------------------------------------------------------------
(* PyWiim._get up to its await of session.get() *)

(* Variant: a session is constructed for every request. *)
NeedsSessionAlways(s) == TRUE

(* if self._aiohttp_session is None: *)
NeedsSession(s) == s = None

(* _get(request), called by task t whose record is tr: create the session  *)
(* when there is none, then issue the GET on self._aiohttp_session.        *)
Get(t, tr, request) ==
    /\ session' = IF NeedsSession(session) THEN NewSession(numCreated) ELSE session
    /\ created_session' = IF NeedsSession(session) THEN TRUE ELSE created_session
    /\ numCreated' = IF NeedsSession(session) THEN numCreated + 1 ELSE numCreated
    /\ createdSinceReset' = IF NeedsSession(session) THEN createdSinceReset + 1
                            ELSE createdSinceReset
    /\ lateGet' = (lateGet \/ TimesReleased(session') > 0)
    /\ tasks' = [tasks EXCEPT ![t] = [tr EXCEPT !.pc = "get", !.cmd = request,
                                                !.used = session', !.nget = @ + 1]]

(* A call returns or raises. *)
Finish(t, result) ==
    tasks' = [tasks EXCEPT ![t].pc = "done", ![t].result = result]

(* The caller starts its next call in the first free slot. *)
MayStart(t, c) ==
    /\ tasks[t].pc = "idle"
    /\ \A u \in Tasks : u < t => tasks[u].pc # "idle"
    /\ c \in repertoire
    /\ opsStarted < MaxOps
    /\ Cardinality(InFlight) < runLimit

(* pause() .. play_audio_url(), set_volume_relative(): entry to first await *)
Call ==
    \E t \in Tasks, c \in repertoire :
        /\ MayStart(t, c)
        /\ c.op # "close"
        /\ Get(t, [Idle EXCEPT !.op = c.op, !.n = c.n, !.s = c.s], Command(c.op, c.n, c.s))
        /\ opsStarted' = opsStarted + 1
        /\ UNCHANGED <<supplied, devVol, released, repertoire, runLimit, closeLimit, quirks>>

(* Variant: close() releases whatever session it holds. *)
CloseGuardAnySession(c, s) == s # None

(* if self._created_session and self._aiohttp_session is not None: *)
CloseGuard(c, s) == c /\ s # None

(* self._aiohttp_session = None ; self._created_session = False *)
SessionAfterClose == None

(* Variant: close() forgets to clear the ownership flag. *)
CreatedAfterCloseKept == TRUE

CreatedAfterClose == FALSE

(* close(): entry to the await of session.close(), or to the end when the  *)
(* guard is false.                                                         *)
CloseBegin ==
    \E t \in Tasks :
        /\ MayStart(t, CloseCall)
        /\ Cardinality(Closing) < closeLimit
        /\ opsStarted' = opsStarted + 1
        /\ IF CloseGuard(created_session, session)
           THEN /\ released' = Append(released, session)
                /\ tasks' = [tasks EXCEPT ![t] = [Idle EXCEPT !.pc = "closing",
                                                              !.op = "close",
                                                              !.used = session]]
           ELSE /\ tasks' = [tasks EXCEPT ![t] = [Idle EXCEPT !.pc = "done",
                                                              !.op = "close",
                                                              !.result = Ok]]
                /\ UNCHANGED released
        /\ UNCHANGED <<session, created_session, supplied, devVol, numCreated,
                       createdSinceReset, lateGet, repertoire, runLimit, closeLimit, quirks>>

(* close(): from the return of session.close() to the end *)
CloseFinish ==
    \E t \in Tasks :
        /\ tasks[t].pc = "closing"
        /\ session' = SessionAfterClose
        /\ created_session' = CreatedAfterClose
        /\ createdSinceReset' = 0
        /\ Finish(t, Ok)
        /\ UNCHANGED <<supplied, devVol, numCreated, released, lateGet, opsStarted,
                       repertoire, runLimit, closeLimit, quirks>>

(* The device answers the GET in flight: any status; on 200 a set-volume   *)
(* command with a volume in 0..100 takes effect.                           *)
DeviceReply ==
    \E t \in Tasks, status \in {STATUS_OK, 404} :
        /\ tasks[t].pc = "get"
        /\ \E body \in IF status = STATUS_OK /\ tasks[t].cmd = PYWIIM_CMD_GET_PLAY_INFO
                       THEN StatusBodies(devVol) ELSE {PlainBody} :
               tasks' = [tasks EXCEPT ![t].pc = "replied", ![t].resp = Http(status, body)]
        /\ devVol' = IF status = STATUS_OK /\ VolumeSetBy(tasks[t].cmd) # -1
                     THEN VolumeSetBy(tasks[t].cmd) ELSE devVol
        /\ UNCHANGED <<session, created_session, supplied, numCreated,
                       createdSinceReset, released, lateGet, opsStarted, repertoire,
                       runLimit, closeLimit, quirks>>

(* The GET in flight ends in asyncio.TimeoutError or an aiohttp.ClientError *)
TransportFail ==
    \E t \in Tasks, kind \in {"TimeoutError", "ClientError"} :
        /\ tasks[t].pc = "get"
        /\ tasks' = [tasks EXCEPT ![t].pc = "replied", ![t].resp = Failure(kind)]
        /\ UNCHANGED <<session, created_session, supplied, devVol, numCreated,
                       createdSinceReset, released, lateGet, opsStarted, repertoire,
                       runLimit, closeLimit, quirks>>

(* _get: response = await session.get(...) returns or raises; then         *)
(* if response.status == STATUS_OK ... else raise PyWiimCannotConnectError *)
Resume ==
    \E t \in Tasks :
        /\ tasks[t].pc = "replied"
        /\ LET r == tasks[t].resp IN
           IF r.kind # "http" THEN Finish(t, ExceptClause(r.kind))
           ELSE IF r.status = STATUS_OK
                THEN tasks' = [tasks EXCEPT ![t].pc = "text"]
                ELSE Finish(t, ExceptClause("PyWiimCannotConnectError"))
        /\ UNCHANGED <<session, created_session, supplied, devVol, numCreated,
                       createdSinceReset, released, lateGet, opsStarted, repertoire,
                       runLimit, closeLimit, quirks>>

(* Variant: a missing "vol" key reads as volume 0, as status.get("vol", 0). *)
ParseVolDefault(body) ==
    IF ~body.json THEN [err |-> "JSONDecodeError", val |-> 0]
    ELSE IF ~body.hasVol THEN [err |-> "ok", val |-> 0]
    ELSE IF ~int(body.vol).ok THEN [err |-> "ValueError", val |-> 0]
    ELSE [err |-> "ok", val |-> int(body.vol).val]

(* get_playback_status and the first statement of set_volume_relative:     *)
(* json.loads(text), status["vol"], int(...)                               *)
ParseVol(body) ==
    IF ~body.json THEN [err |-> "JSONDecodeError", val |-> 0]
    ELSE IF ~body.hasVol THEN [err |-> "KeyError", val |-> 0]
    ELSE IF ~int(body.vol).ok THEN [err |-> "ValueError", val |-> 0]
    ELSE [err |-> "ok", val |-> int(body.vol).val]

(* _get: return await response.text(), and the rest of the calling method  *)
TextDone ==
    \E t \in Tasks, read \in BOOLEAN :
        /\ tasks[t].pc = "text"
        /\ LET tr == tasks[t]
               pv == ParseVol(tr.resp.body)
           IN  IF ~read
               THEN /\ tasks' = [tasks EXCEPT ![t].pc = "done",
                                                ![t].resp = Failure("ClientError"),
                                                ![t].result = ExceptClause("ClientError")]
                    /\ UNCHANGED <<session, created_session, numCreated,
                                   createdSinceReset, lateGet>>
               ELSE IF tr.op = "set_volume_relative" /\ tr.nget = 1
               THEN IF pv.err # "ok"
                    THEN /\ Finish(t, Err(pv.err, "none"))
                         /\ UNCHANGED <<session, created_session, numCreated,
                                        createdSinceReset, lateGet>>
                    ELSE Get(t, [tr EXCEPT !.readVol = pv.val,
                                           !.overlapped = \E u \in Tasks \ {t} :
                                                              HoldsRead(u, pv.val)],
                             Command("set_volume", Bound(NewVol(pv.val, tr.n)), ""))
               ELSE /\ Finish(t, Ok)
                    /\ UNCHANGED <<session, created_session, numCreated,
                                   createdSinceReset, lateGet>>
        /\ UNCHANGED <<supplied, devVol, released, opsStarted, repertoire, runLimit,
                       closeLimit, quirks>>

(* The caller's await of the call yields the result or the exception. *)
Return ==
    \E t \in Tasks :
        /\ tasks[t].pc = "done"
        /\ tasks' = [tasks EXCEPT ![t] = Idle]
        /\ UNCHANGED <<session, created_session, supplied, devVol, numCreated,
                       createdSinceReset, released, lateGet, opsStarted, repertoire,
                       runLimit, closeLimit, quirks>>

----------------------------------------------------------------------------
Next == \/ Call
        \/ CloseBegin
        \/ CloseFinish
        \/ DeviceReply
        \/ TransportFail
        \/ Resume
        \/ TextDone
        \/ Return

Caller(calls, run, close, q) ==
    /\ repertoire = calls
    /\ runLimit = run
    /\ closeLimit = close
    /\ quirks = q

(* A caller that overlaps calls freely, closes included. *)
Init == InitClient /\ Caller(LifecycleCalls, NumTasks, NumTasks, {})
Spec == Init /\ [][Next]_vars

(* A caller that overlaps requests but awaits each close() before the next. *)
InitSerialClose == InitClient /\ Caller(LifecycleCalls, NumTasks, 1, {})
SpecSerialClose == InitSerialClose /\ [][Next]_vars

(* A caller that overlaps two set_volume_relative calls. *)
InitRace == InitClient /\ Caller(RaceCalls, 2, 2, {})
SpecRace == InitRace /\ [][Next]_vars

(* A caller that awaits each call before the next, over every command. *)
InitSequential == InitClient /\ Caller(CommandCalls \cup VolumeCalls \cup {CloseCall}, 1, 1, VolQuirks)
SpecSequential == InitSequential /\ [][Next]_vars

----------------------------------------------------------------------------
(* Properties *)

SRV == "set_volume_relative"
Requesting == {t \in Tasks : tasks[t].pc \in {"get", "replied", "text"}}
Min(a, b) == IF a < b THEN a ELSE b
Max(a, b) == IF a > b THEN a ELSE b

(* C1: with close() calls awaited one after another, every session the     *)
(* client created is released at most once, the session passed to __init__ *)
(* is never released, a close() that releases ends with session = None and *)
(* the ownership flag false having released its session exactly once, and  *)
(* a close() that finds nothing owned releases nothing and changes neither *)
(* the session nor the flag.                                               *)
C1_Released ==
    /\ \A i, j \in 1..Len(released) : released[i] = released[j] => i = j
    /\ \A i \in 1..Len(released) : released[i] # ExtSession /\ released[i] # None
    /\ supplied => released = <<>>

C1_CloseStep ==
    \A t \in Tasks :
        /\ (tasks[t].pc = "closing" /\ tasks'[t].pc = "done")
              => /\ session' = None
                 /\ created_session' = FALSE
                 /\ TimesReleased(tasks[t].used) = 1
                 /\ released' = released
        /\ (tasks[t].pc = "idle" /\ tasks'[t].pc = "done" /\ tasks'[t].op = "close")
              => /\ ~(created_session /\ session # None)
                 /\ released' = released
                 /\ session' = session
                 /\ created_session' = created_session
        /\ (tasks[t].pc = "idle" /\ tasks'[t].pc = "closing")
              => /\ created_session /\ session # None
                 /\ released' = Append(released, session)

C1_CloseContract == []C1_Released /\ [][C1_CloseStep]_vars

(* C1 witness: the client created a session, a first close() released it,  *)
(* and a second close() has returned having released nothing.              *)
C1_Witness ==
    /\ ~supplied
    /\ numCreated = 1
    /\ released = <<NewSession(0)>>
    /\ session = None
    /\ ~created_session
    /\ \E t \in Tasks : /\ tasks[t].pc = "done"
                        /\ tasks[t].op = "close"
                        /\ tasks[t].used = None

(* C2: a call whose GET was answered with a status other than 200 ends     *)
(* with PyWiimCannotConnectError and nothing else.                         *)
C2_Non200RaisesConnectionError ==
    \A t \in Tasks :
        (tasks[t].pc = "done" /\ tasks[t].resp.kind = "http"
            /\ tasks[t].resp.status # STATUS_OK)
        => tasks[t].result = Err("PyWiimCannotConnectError", "none")

(* C3: a call whose GET ended in a timeout or a transport failure ends     *)
(* with PyWiimCannotConnectError whose cause is that error.                *)
C3_TransportErrorWrapped ==
    \A t \in Tasks :
        (tasks[t].pc = "done" /\ tasks[t].resp.kind \in {"TimeoutError", "ClientError"})
        => tasks[t].result = Err("PyWiimCannotConnectError", tasks[t].resp.kind)

(* C4: the set-volume command issued by set_volume_relative(offset) after  *)
(* a status read of "vol" = v carries min(100, max(0, v + offset)), which  *)
(* lies in 0..100; v is the integer the device wrote.                      *)
C4_RelativeVolumeClamped ==
    \A t \in Tasks :
        (tasks[t].op = SRV /\ tasks[t].nget = 2)
        => /\ tasks[t].cmd = "setPlayerCmd:vol:"
                               \o str(Min(100, Max(0, tasks[t].readVol + tasks[t].n)))
           /\ VolumeSetBy(tasks[t].cmd) \in 0..100
           /\ tasks[t].pc = "get"
                => \A v \in -10..130 :
                     tasks[t].resp.body.vol = IntChars(v)
                       => tasks[t].cmd = "setPlayerCmd:vol:"
                                           \o str(Min(100, Max(0, v + tasks[t].n)))

(* C4 witness: "vol" = 80 and offset 30 send setPlayerCmd:vol:100. *)
C4_Witness ==
    \E t \in Tasks :
        /\ tasks[t].op = SRV /\ tasks[t].nget = 2 /\ tasks[t].pc = "get"
        /\ tasks[t].resp.body.vol = <<"8", "0">>
        /\ tasks[t].n = 30
        /\ tasks[t].cmd = "setPlayerCmd:vol:100"

(* The documented command of each single-command call. *)
Documented(op, n, s) ==
    CASE op = "pause"    -> "setPlayerCmd:pause"
      [] op = "play"     -> "setPlayerCmd:play"
      [] op = "toggle"   -> "setPlayerCmd:onepause"
      [] op = "previous" -> "setPlayerCmd:prev"
      [] op = "next"     -> "setPlayerCmd:next"
      [] op = "stop"     -> "setPlayerCmd:stop"
      [] op = "reboot"   -> "reboot"
      [] op = "mute"     -> "setPlayerCmd:mute:1"
      [] op = "unmute"   -> "setPlayerCmd:mute:0"
      [] op = "enable_eq"  -> "EQOn"
      [] op = "disable_eq" -> "EQOff"
      [] op = "seek" /\ n = 30 -> "setPlayerCmd:seek:30"
      [] op = "set_volume" /\ n = -10 -> "setPlayerCmd:vol:-10"
      [] op = "set_volume" /\ n = 0   -> "setPlayerCmd:vol:0"
      [] op = "set_volume" /\ n = 50  -> "setPlayerCmd:vol:50"
      [] op = "set_volume" /\ n = 100 -> "setPlayerCmd:vol:100"
      [] op = "set_volume" /\ n = 150 -> "setPlayerCmd:vol:150"
      [] op = "schedule_shutdown" /\ n = -1 -> "setShutdown:-1"
      [] op = "schedule_shutdown" /\ n = 60 -> "setShutdown:60"
      [] op = "set_loopmode" /\ s = "4" -> "setPlayerCmd:loopmode:4"
      [] op = "set_loopmode" /\ s = "3" -> "setPlayerCmd:loopmode:3"
      [] op = "load_eq" /\ s = "Rock" -> "EQLoad:Rock"
      [] op = "set_source" /\ s = "line-in" -> "setPlayerCmd:switchmode:line-in"
      [] op = "set_source" /\ s = "wifi" -> "setPlayerCmd:switchmode:wifi"
      [] op = "play_audio_url" /\ s = "https://hd1.wamu.org/wamu-1"
            -> "setPlayerCmd:play:https://hd1.wamu.org/wamu-1"
      [] OTHER -> "undocumented"

SingleCommandOps == {c.op : c \in CommandCalls}

(* C5: a single-command call has issued exactly one GET from its first     *)
(* await to its end, whether it returns or raises, and that GET carries    *)
(* the documented token followed by the argument's text unchanged.         *)
C5_OneRequestPerCommand ==
    \A t \in Tasks :
        tasks[t].op \in SingleCommandOps
        => /\ tasks[t].nget = 1
           /\ tasks[t].cmd = Documented(tasks[t].op, tasks[t].n, tasks[t].s)

(* C5 witness: set_volume(150) has raised after one GET of                 *)
(* setPlayerCmd:vol:150.                                                   *)
C5_Witness ==
    \E t \in Tasks :
        /\ tasks[t].pc = "done"
        /\ tasks[t].op = "set_volume" /\ tasks[t].n = 150
        /\ tasks[t].nget = 1
        /\ tasks[t].cmd = "setPlayerCmd:vol:150"
        /\ tasks[t].result.type \notin {"ok", "none"}

(* C6: at every await, the ownership flag implies a session, and the flag  *)
(* is never set while the session is the one passed to __init__.           *)
C6_OwnedImpliesSession ==
    /\ created_session => session # None
    /\ created_session => session # ExtSession
    /\ supplied => ~created_session

(* C6 witness: the flag is set while a close() and a request are both      *)
(* suspended.                                                              *)
C6_Witness ==
    /\ created_session
    /\ session # None
    /\ Closing # {}
    /\ Requesting # {}

(* C7: at most one session is constructed between two resets of the handle *)
(* by close(); a client given a session constructs none; a request         *)
(* constructs a session only when there is none, marks it owned, and every *)
(* request is issued on the session the client holds.                      *)
C7_Created ==
    /\ createdSinceReset <= 1
    /\ supplied => numCreated = 0 /\ session = ExtSession

C7_RequestStep ==
    \A t \in Tasks :
        tasks'[t].nget > tasks[t].nget
        => /\ tasks'[t].used = session'
           /\ session # None => session' = session /\ numCreated' = numCreated
           /\ session = None => /\ numCreated' = numCreated + 1
                                /\ session' = NewSession(numCreated)
                                /\ created_session'

C7_SessionCreatedOnce == []C7_Created /\ [][C7_RequestStep]_vars

(* C7 witness: two requests are in flight on the one session the client    *)
(* created.                                                                *)
C7_Witness ==
    /\ ~supplied
    /\ numCreated = 1
    /\ \E t, u \in Requesting : t # u /\ tasks[t].used = session /\ tasks[u].used = session

(* C8: of two overlapping set_volume_relative calls that read the same     *)
(* "vol" = v, each sends v plus its own offset, bounded: neither write     *)
(* takes the other call's offset into account.                             *)
C8_RelativeVolumeNotSerialized ==
    \A t, u \in Tasks :
        (t # u /\ tasks[t].op = SRV /\ tasks[u].op = SRV
            /\ tasks[t].nget = 2 /\ tasks[u].nget = 2
            /\ tasks[t].readVol = tasks[u].readVol)
        => /\ tasks[t].cmd = PYWIIM_CMD_VOLUME_SET
                               \o str(Bound(tasks[t].readVol + tasks[t].n))
           /\ tasks[u].cmd = PYWIIM_CMD_VOLUME_SET
                               \o str(Bound(tasks[u].readVol + tasks[u].n))

(* C8 witness: both calls held "vol" = 50 before either wrote; the first   *)
(* sent 80, the second then sent 20, and the volume of both offsets, 50,   *)
(* was never sent.                                                         *)
C8_Witness ==
    \E t, u \in Tasks :
        /\ t # u
        /\ tasks[t].op = SRV /\ tasks[u].op = SRV
        /\ tasks[t].nget = 2 /\ tasks[u].nget = 2
        /\ tasks[t].overlapped
        /\ tasks[t].readVol = 50 /\ tasks[u].readVol = 50
        /\ tasks[t].n = 30 /\ tasks[u].n = -30
        /\ tasks[t].cmd = "setPlayerCmd:vol:80"
        /\ tasks[u].cmd = "setPlayerCmd:vol:20"

(* C9: no session is released twice, and no GET is issued on a session     *)
(* whose release has begun.                                                *)
C9_ReleasedOnceNoLateGet ==
    /\ \A i, j \in 1..Len(released) : released[i] = released[j] => i = j
    /\ ~lateGet

(* C10: set_volume_relative issues its set-volume GET only after its       *)
(* status GET has returned 200 with a JSON body whose "vol" is an integer; *)
(* a call whose status read failed ends with an error after that one GET,  *)
(* the parse errors being JSONDecodeError, KeyError and ValueError.        *)
C10_Ended ==
    \A t \in Tasks :
        (tasks[t].pc = "done" /\ tasks[t].op = SRV)
        => LET r == tasks[t].resp
               b == r.body
           IN  /\ tasks[t].result.type # "none"
               /\ tasks[t].result.type = "ok" => tasks[t].nget = 2
               /\ tasks[t].nget = 1 =>
                    /\ tasks[t].cmd = "getPlayerStatus"
                    /\ (r.kind = "http" /\ r.status = STATUS_OK /\ ~b.json)
                          => tasks[t].result.type = "JSONDecodeError"
                    /\ (r.kind = "http" /\ r.status = STATUS_OK /\ b.json /\ ~b.hasVol)
                          => tasks[t].result.type = "KeyError"
                    /\ (r.kind = "http" /\ r.status = STATUS_OK /\ b.json /\ b.hasVol)
                          => /\ tasks[t].result.type = "ValueError"
                             /\ b.vol = <<"x">>

C10_WriteStep ==
    \A t \in Tasks :
        (tasks[t].op = SRV /\ tasks'[t].nget > tasks[t].nget)
        => /\ tasks[t].nget = 1 /\ tasks'[t].nget = 2
           /\ tasks[t].pc = "text"
           /\ tasks[t].resp.kind = "http"
           /\ tasks[t].resp.status = STATUS_OK
           /\ tasks[t].resp.body.json
           /\ tasks[t].resp.body.hasVol
           /\ tasks[t].resp.body.vol # <<"x">>

C10_ReadBeforeWrite == []C10_Ended /\ [][C10_WriteStep]_vars

(* C10 witness: the status read returned {} and the call has raised        *)
(* KeyError after its single GET.                                          *)
C10_Witness ==
    \E t \in Tasks :
        /\ tasks[t].pc = "done" /\ tasks[t].op = SRV
        /\ tasks[t].nget = 1
        /\ tasks[t].resp.body = Body(TRUE, FALSE, <<>>)
        /\ tasks[t].result.type = "KeyError"
====
